---------------------------- MODULE Spec2Model ----------------------------
(***************************************************************************)
(* A model of tank_viewer/havok/model_extractor.py: the decoding of the    *)
(* two quantized vertex encodings, the construction of a HavokGeometry     *)
(* (unified vertex array and in-place index resolution, section by         *)
(* section), the fan triangulation of the quads, and the walk of the tag   *)
(* tree in read_geoms_from_havok.                                          *)
(*                                                                         *)
(* Representation of the numpy values:                                     *)
(*  - a uint32 / uint64 array element is a little-endian sequence of       *)
(*    16-bit limbs (2 limbs, 4 limbs), since the values exceed the range   *)
(*    of the model checker's integers; >> and & are computed on the limbs; *)
(*  - a float32 is a record [m, e] standing for m * 2^e, with m = 0 or     *)
(*    2^23 <= |m| < 2^24; +, -, * round to nearest, ties to even, as IEEE  *)
(*    754 binary32 does.  Infinities, NaN, signed zero and subnormals are  *)
(*    not represented: the inputs are finite and of moderate exponent;     *)
(*  - an int64 primitive index is an integer.                              *)
(***************************************************************************)
EXTENDS Integers, Sequences, FiniteSets, TLC

VARIABLES
    cIn,        \* codec: the arguments of the decode under way
    cOut,       \* codec: the array the decode returned
    cpc,        \* codec: "packed" | "shared" before the call, "done" after
    tIn,        \* triangulator: the resolved primitives
    tOut,       \* triangulator: the value of the tris property
    tpc,        \* triangulator: "ready" | "done"
    meshTree,   \* geometry: the meshTree subtree handed to HavokGeometry
    g,          \* geometry: the object under construction
    gw,         \* geometry, history: how often each verts row and each
                \*   primitive row has been assigned so far
    gpc,        \* geometry: "new" | "alloc" | "sections" | "done" | "raised"
    tree,       \* extractor: the parsed tag file
    xpc,        \* extractor: "open" | "entries" | "bodies" | "returned" | "raised"
    vi,         \* extractor: position in resourceHandles
    bi,         \* extractor: position in the entry's bodyCinfos
    out         \* extractor: the list of geometries built so far

vars == <<cIn, cOut, cpc, tIn, tOut, tpc, meshTree, g, gw, gpc, tree, xpc, vi, bi, out>>

codecVars == <<cIn, cOut, cpc>>
trisVars == <<tIn, tOut, tpc>>
geomVars == <<meshTree, g, gw, gpc>>
extractVars == <<tree, xpc, vi, bi, out>>

(***************************************************************************)
(* Integer helpers.                                                        *)
(***************************************************************************)
Pow2(n) == 2 ^ n

Abs(n) == IF n < 0 THEN -n ELSE n

MinOf(a, b) == IF a <= b THEN a ELSE b

MaxOf(a, b) == IF a >= b THEN a ELSE b

RECURSIVE BitLen(_)
BitLen(n) == IF n = 0 THEN 0 ELSE 1 + BitLen(n \div 2)

RECURSIVE BitAnd(_, _)
BitAnd(a, b) ==
    IF a = 0 \/ b = 0 THEN 0
    ELSE (a % 2) * (b % 2) + 2 * BitAnd(a \div 2, b \div 2)

(***************************************************************************)
(* Unsigned machine words as little-endian sequences of 16-bit limbs.      *)
(***************************************************************************)
LimbBase == Pow2(16)

Limb(w, i) == IF i \in 1..Len(w) THEN w[i] ELSE 0

\* w >> n on an unsigned array element
ShiftRight(w, n) ==
    LET q == n \div 16
        r == n % 16
    IN  [i \in 1..Len(w) |->
            (Limb(w, i + q) \div Pow2(r)) + (Limb(w, i + q + 1) % Pow2(r)) * Pow2(16 - r)]

\* w & mask for a mask below 2^31; the result fits an integer
AndMask(w, mask) ==
    BitAnd(Limb(w, 1), mask % LimbBase) + LimbBase * BitAnd(Limb(w, 2), mask \div LimbBase)

(***************************************************************************)
(* float32 arithmetic (IEEE 754 binary32, round to nearest, ties to even). *)
(***************************************************************************)
F32Zero == [m |-> 0, e |-> 0]

\* The float32 nearest to (A + f) * 2^e for an integer A >= 0 and a fraction
\* 0 <= f < 1 that is nonzero exactly when sticky; negated when neg.  With
\* sticky set A has at least 25 bits, so f decides nothing but a tie.
F32Round(neg, A, sticky, e) ==
    LET s == IF neg THEN -1 ELSE 1
        k == BitLen(A) - 24
    IN  IF A = 0 THEN F32Zero
        ELSE IF k <= 0 THEN [m |-> s * A * Pow2(-k), e |-> e + k]
        ELSE LET q == A \div Pow2(k)
                 r == A % Pow2(k)
                 half == Pow2(k - 1)
                 up == r > half \/ (r = half /\ (sticky \/ q % 2 = 1))
                 q2 == IF up THEN q + 1 ELSE q
             IN  IF q2 = Pow2(24) THEN [m |-> s * Pow2(23), e |-> e + k + 1]
                 ELSE [m |-> s * q2, e |-> e + k]

\* The float32 nearest to (M + f) * 2^e for a signed integer M
F32RoundSigned(M, sticky, e) ==
    IF M >= 0 THEN F32Round(FALSE, M, sticky, e)
    ELSE IF sticky THEN F32Round(TRUE, -M - 1, TRUE, e)
    ELSE F32Round(TRUE, -M, FALSE, e)

\* The float32 of an integer of magnitude below 2^30
F32FromInt(n) == F32RoundSigned(n, FALSE, 0)

F32Neg(a) == [m |-> -a.m, e |-> a.e]

\* floor(n / 2^sh) for any integer n and sh >= 0
FloorShift(n, sh) ==
    IF sh > 25 THEN (IF n < 0 THEN -1 ELSE 0)
    ELSE IF n >= 0 THEN n \div Pow2(sh)
    ELSE -((-n + Pow2(sh) - 1) \div Pow2(sh))

\* a + b in float32
F32Add(a, b) ==
    IF a.m = 0 THEN b
    ELSE IF b.m = 0 THEN a
    ELSE LET hi == IF a.e >= b.e THEN a ELSE b
             lo == IF a.e >= b.e THEN b ELSE a
             d == hi.e - lo.e
         IN  IF d <= 6 THEN F32RoundSigned(hi.m * Pow2(d) + lo.m, FALSE, lo.e)
             ELSE LET bs == FloorShift(lo.m, d - 3)
                      sticky == IF d - 3 > 25 THEN TRUE ELSE lo.m # bs * Pow2(d - 3)
                  IN  F32RoundSigned(hi.m * 8 + bs, sticky, hi.e - 3)

\* a - b in float32
F32Sub(a, b) == F32Add(a, F32Neg(b))

\* a * b in float32: the 48-bit product of the significands from 12-bit halves
F32Mul(a, b) ==
    IF a.m = 0 \/ b.m = 0 THEN F32Zero
    ELSE LET x == Abs(a.m)
             y == Abs(b.m)
             x1 == x \div 4096
             x0 == x % 4096
             y1 == y \div 4096
             y0 == y % 4096
             mid == x1 * y0 + x0 * y1
             low == (mid % 4096) * 4096 + x0 * y0
             H == x1 * y1 + mid \div 4096 + low \div Pow2(24)
             rem == low % Pow2(24)
         IN  F32Round((a.m < 0) # (b.m < 0), H * 4 + rem \div Pow2(22),
                      rem % Pow2(22) # 0, a.e + b.e + 22)

\* a < b on float32 values
F32Lt(a, b) ==
    IF a.m = 0 THEN b.m > 0
    ELSE IF b.m = 0 THEN a.m < 0
    ELSE IF (a.m < 0) # (b.m < 0) THEN a.m < 0
    ELSE IF a.e # b.e THEN (IF a.m > 0 THEN a.e < b.e ELSE a.e > b.e)
    ELSE a.m < b.m

F32Le(a, b) == a = b \/ F32Lt(a, b)

F32Maximum(a, b) == IF F32Lt(a, b) THEN b ELSE a

F32Minimum(a, b) == IF F32Lt(b, a) THEN b ELSE a

\* np.clip(x, lo, hi) = np.minimum(np.maximum(x, lo), hi)
F32Clip(x, lo, hi) == F32Minimum(F32Maximum(x, lo), hi)

\* The float32 stored for n / d, 0 <= n <= d < 2^22: the quotient is formed in
\* float64 and rounded again on assignment into the float32 array.  For
\* d = 2^21 - 1 and d = 2^22 - 1 the binary expansion of n / d repeats the bits
\* of n with period 21 (22), so it is never within 2^-53 of a float32 tie and
\* the two roundings agree with one rounding to float32.
RECURSIVE LongDiv(_, _, _, _)
LongDiv(q, r, d, steps) ==
    IF steps = 0 THEN <<q, r>>
    ELSE IF 2 * r >= d THEN LongDiv(2 * q + 1, 2 * r - d, d, steps - 1)
    ELSE LongDiv(2 * q, 2 * r, d, steps - 1)

F32Quotient(n, d) ==
    IF n = 0 THEN F32Zero
    ELSE LET s == BitLen(d) - BitLen(n) + (IF n * Pow2(BitLen(d) - BitLen(n)) < d THEN 1 ELSE 0)
             n0 == n * Pow2(s)
             res == LongDiv(1, n0 - d, d, 25)
         IN  F32Round(FALSE, res[1], res[2] # 0, -s - 25)

(***************************************************************************)
(* Vertex codec: unpack_packed_vertices and unpack_shared_vertices.        *)
(***************************************************************************)
PackedShiftZ == 22

PackedMaskZ == 1023

PackedShiftY == 11

PackedMaskXY == 2047

SharedShiftZ == 42

SharedMaskZ == 4194303

SharedShiftY == 21

SharedMaskXY == 2097151

\* A faulty variant: y read through the 10-bit mask of z
PackedField_y10(p, c) ==
    CASE c = 3 -> AndMask(ShiftRight(p, PackedShiftZ), PackedMaskZ)
      [] c = 2 -> AndMask(ShiftRight(p, PackedShiftY), PackedMaskZ)
      [] c = 1 -> AndMask(p, PackedMaskXY)

\* The integer stored into column c (1 = x, 2 = y, 3 = z) for element p
PackedField(p, c) ==
    CASE c = 3 -> AndMask(ShiftRight(p, PackedShiftZ), PackedMaskZ)
      [] c = 2 -> AndMask(ShiftRight(p, PackedShiftY), PackedMaskXY)
      [] c = 1 -> AndMask(p, PackedMaskXY)

unpack_packed_vertices(packed, codec, sec_domain_min, sec_domain_max) ==
    [i \in 1..Len(packed) |->
        [c \in 1..3 |->
            F32Clip(F32Add(F32Mul(F32FromInt(PackedField(packed[i], c)), codec.scale_xyz[c]),
                           codec.min_xyz[c]),
                    sec_domain_min[c], sec_domain_max[c])]]

\* A faulty variant: z shifted by one bit less than its field starts at
SharedField_z41(s, c) ==
    CASE c = 3 -> AndMask(ShiftRight(s, SharedShiftZ - 1), SharedMaskZ)
      [] c = 2 -> AndMask(ShiftRight(s, SharedShiftY), SharedMaskXY)
      [] c = 1 -> AndMask(s, SharedMaskXY)

\* The numerator of column c for element s
SharedField(s, c) ==
    CASE c = 3 -> AndMask(ShiftRight(s, SharedShiftZ), SharedMaskZ)
      [] c = 2 -> AndMask(ShiftRight(s, SharedShiftY), SharedMaskXY)
      [] c = 1 -> AndMask(s, SharedMaskXY)

\* The divisor of column c
SharedDenominator(c) == IF c = 3 THEN SharedMaskZ ELSE SharedMaskXY

\* The fraction stored into column c before the domain mapping
SharedFraction(s, c) == F32Quotient(SharedField(s, c), SharedDenominator(c))

unpack_shared_vertices(shared, domain_min, domain_max) ==
    [i \in 1..Len(shared) |->
        [c \in 1..3 |->
            F32Add(F32Mul(SharedFraction(shared[i], c), F32Sub(domain_max[c], domain_min[c])),
                   domain_min[c])]]

(***************************************************************************)
(* HavokSection.__init__: the fields read from one section of the tree.    *)
(***************************************************************************)
\* seq[:n]
Prefix(seq, n) == [i \in 1..MinOf(n, Len(seq)) |-> seq[i]]

\* seq[a:b] for 0 <= a <= b
Slice(seq, a, b) == [i \in 1..(MinOf(b, Len(seq)) - MinOf(a, Len(seq))) |-> seq[a + i]]

HavokSection(section) ==
    [domain_min |-> Prefix(section.domain.min, 3),
     domain_max |-> Prefix(section.domain.max, 3),
     codec_params |-> [min_xyz |-> Slice(section.codecParms, 0, 3),
                       scale_xyz |-> Slice(section.codecParms, 3, 6)],
     firstPackedVertexIndex |-> section.firstPackedVertexIndex,
     firstSharedVertexIndex |-> section.firstSharedVertexIndex,
     firstPrimitiveIndex |-> section.firstPrimitiveIndex,
     numPackedVertices |-> section.numPackedVertices,
     numPrimitives |-> section.numPrimitives,
     firstDataRunIndex |-> section.firstDataRunIndex,
     numDataRuns |-> section.numDataRuns]

(***************************************************************************)
(* HavokGeometry.__init__.                                                 *)
(***************************************************************************)
\* The rows (counted from 1) that a[first : first + num] selects of an array
\* of len rows, for first >= 0 and num >= 0
SliceRows(len, first, num) == {i \in 1..len : i > first /\ i <= first + num}

\* Lines 106-125: the fields read from the tree; verts is not allocated yet
ReadFields(name, mt) ==
    [name |-> name,
     domain_min |-> Prefix(mt.domain.min, 3),
     domain_max |-> Prefix(mt.domain.max, 3),
     primitives |-> mt.primitives,
     sharedVerticesIndex |-> mt.sharedVerticesIndex,
     sections |-> [k \in 1..Len(mt.sections) |-> HavokSection(mt.sections[k])],
     sharedVertices |-> mt.sharedVertices,
     packedVertices |-> mt.packedVertices,
     verts |-> <<>>,
     si |-> 1]

\* np.stack raises ValueError on an empty list of rows
StackRaises(mt) == Len(mt.primitives) = 0

\* Lines 127-131: np.empty leaves every row holding whatever the memory held
\* (junk); the tail is then assigned the decoded shared vertices
AllocatedVerts(obj, junk) ==
    LET P == Len(obj.packedVertices)
        S == Len(obj.sharedVertices)
        tail == unpack_shared_vertices(obj.sharedVertices, obj.domain_min, obj.domain_max)
    IN  [i \in 1..(P + S) |-> IF i > P THEN tail[i - P] ELSE junk]

\* Lines 133-140: the rows of verts assigned for section sec
PackedSource(obj, sec) ==
    SliceRows(Len(obj.packedVertices), sec.firstPackedVertexIndex, sec.numPackedVertices)

PackedTarget(obj, sec) ==
    IF sec.numPackedVertices > 0
    THEN SliceRows(Len(obj.verts), sec.firstPackedVertexIndex, sec.numPackedVertices)
    ELSE {}

\* The assignment of a (k, 3) array to m rows raises ValueError unless k = m
\* or the single row can be broadcast
PackedRaises(obj, sec) ==
    /\ sec.numPackedVertices > 0
    /\ Cardinality(PackedSource(obj, sec)) # Cardinality(PackedTarget(obj, sec))
    /\ Cardinality(PackedSource(obj, sec)) # 1

PackedVerts(obj, sec) ==
    LET k == Cardinality(PackedSource(obj, sec))
        first == sec.firstPackedVertexIndex
        decoded == unpack_packed_vertices(
                       [j \in 1..k |-> obj.packedVertices[first + j]],
                       sec.codec_params, sec.domain_min, sec.domain_max)
    IN  [i \in 1..Len(obj.verts) |->
            IF i \in PackedTarget(obj, sec)
            THEN decoded[IF k = 1 THEN 1 ELSE i - first]
            ELSE obj.verts[i]]

\* A faulty variant: the slice taken from firstPrimitiveIndex to the end
PrimRows_toEnd(obj, sec) ==
    SliceRows(Len(obj.primitives), sec.firstPrimitiveIndex, Len(obj.primitives))

\* Lines 142-147: the rows of primitives in prim_slice
PrimRows(obj, sec) ==
    SliceRows(Len(obj.primitives), sec.firstPrimitiveIndex, sec.numPrimitives)

\* A faulty variant: the boundary value numPackedVertices taken as packed
Mask_strict(sec, v) == v > sec.numPackedVertices

\* mask = prim_slice >= sec.numPackedVertices
Mask(sec, v) == v >= sec.numPackedVertices

\* sec.firstSharedVertexIndex + shared_indices
SharedRef(sec, v) == sec.firstSharedVertexIndex + (v - sec.numPackedVertices)

\* The fancy index into sharedVerticesIndex raises IndexError when out of bounds
LookupRaises(obj, sec) ==
    \E r \in PrimRows(obj, sec) : \E c \in 1..4 :
        /\ Mask(sec, obj.primitives[r][c])
        /\ SharedRef(sec, obj.primitives[r][c]) >= Len(obj.sharedVerticesIndex)

\* The value left in a corner of prim_slice that held v
Rewritten(obj, sec, v) ==
    IF Mask(sec, v)
    THEN Len(obj.packedVertices) + obj.sharedVerticesIndex[SharedRef(sec, v) + 1]
    ELSE v + sec.firstPackedVertexIndex

ResolvedPrimitives(obj, sec) ==
    [r \in 1..Len(obj.primitives) |->
        IF r \in PrimRows(obj, sec)
        THEN [c \in 1..4 |-> Rewritten(obj, sec, obj.primitives[r][c])]
        ELSE obj.primitives[r]]

\* One pass of the loop over self.sections: the object after the pass, with
\* raised set when the pass ended in an exception (the packed vertices of the
\* section are stored before the index lookup is evaluated)
ProcessSection(obj, sec) ==
    IF PackedRaises(obj, sec) THEN [raised |-> TRUE, obj |-> obj]
    ELSE LET withVerts == [obj EXCEPT !.verts = PackedVerts(obj, sec)]
         IN  IF LookupRaises(obj, sec) THEN [raised |-> TRUE, obj |-> withVerts]
             ELSE [raised |-> FALSE,
                   obj |-> [withVerts EXCEPT !.primitives = ResolvedPrimitives(obj, sec),
                                             !.si = obj.si + 1]]

\* The whole loop, from section obj.si on
RECURSIVE ProcessSections(_)
ProcessSections(obj) ==
    IF obj.si > Len(obj.sections) THEN [raised |-> FALSE, obj |-> obj]
    ELSE LET step == ProcessSection(obj, obj.sections[obj.si])
         IN  IF step.raised THEN step ELSE ProcessSections(step.obj)

\* HavokGeometry(name, meshTree), junk being what np.empty found in memory
HavokGeometry(name, mt, junk) ==
    IF StackRaises(mt) THEN [raised |-> TRUE, obj |-> ReadFields(name, mt)]
    ELSE LET fields == ReadFields(name, mt)
         IN  ProcessSections([fields EXCEPT !.verts = AllocatedVerts(fields, junk)])

(***************************************************************************)
(* HavokGeometry.tris.                                                     *)
(***************************************************************************)
\* The column list [0, 1, 2, 0, 2, 3], counted from 1
FanColumns == <<1, 2, 3, 1, 3, 4>>

\* primitives[:, [0, 1, 2, 0, 2, 3]].reshape(-1, 3): row k of the reshaped
\* array holds elements 3(k-1) .. 3(k-1)+2 of the row-major flattening
FanRows(primitives) ==
    [k \in 1..(2 * Len(primitives)) |->
        [j \in 1..3 |->
            LET flat == 3 * (k - 1) + (j - 1)
            IN  primitives[(flat \div 6) + 1][FanColumns[(flat % 6) + 1]]]]

\* A faulty variant: only neighbouring corners compared
Dupes_adjacent(t) == t[1] = t[2] \/ t[2] = t[3]

Dupes(t) == t[1] = t[2] \/ t[2] = t[3] \/ t[1] = t[3]

NotDupes(t) == ~Dupes(t)

tris(primitives) == SelectSeq(FanRows(primitives), NotDupes)

(***************************************************************************)
(* read_geoms_from_havok.  The tag file is the tree TagReader returns:     *)
(* fileType is what TagReader.checkIO answers, numNamedVariants the length *)
(* of namedVariants, resourceHandles the list under its first variant.     *)
(***************************************************************************)
CollisionName == "Collision Physics Data"

\* Lines 161 and 164: the two assertions
AssertionFails(t) == t.fileType # "Object" \/ t.numNamedVariants # 1

\* A faulty variant: the entries with any other name taken
NameMatches_inverted(val) == val.name # CollisionName

\* Line 169
NameMatches(val) == val.name = CollisionName

\* Line 172
HasBodies(val) == val.hasBodyCinfos

\* Line 174
HasShapeData(body) == body.hasData

(***************************************************************************)
(* Inputs.                                                                 *)
(***************************************************************************)
MaxSections == 2

MaxPrims == 2

MaxPacked == 2

MaxQuads == 2

MaxBodies == 2

Flt(m, e) == [m |-> m, e |-> e]

\* Sequences over S of length lo..hi
SeqsOf(S, lo, hi) == UNION {[1..n -> S] : n \in lo..hi}

\* uint32 samples: every field empty, full, and one past a field boundary
PackedLow == {0, 1, 2047, 2048, 63488, 65535}

PackedHigh == {0, 1, 63, 64, 32768, 65472, 65535}

PackedWords == {<<lo, hi>> : lo \in PackedLow, hi \in PackedHigh}

\* uint64 samples, limb by limb
SharedWords ==
    {<<l0, l1, l2, l3>> : l0 \in {0, 1, 65535}, l1 \in {0, 31, 32, 65535},
                          l2 \in {0, 1023, 1024, 65535}, l3 \in {0, 32768, 65535}}

\* codecParms samples: identity; fractional and inexact scales; a negative scale
CodecSeq ==
    <<<<F32Zero, F32Zero, F32Zero, F32FromInt(1), F32FromInt(1), F32FromInt(1)>>,
     <<F32FromInt(-1), F32FromInt(-2), Flt(8388608, -24),
       Flt(8388608, -32), Flt(10737418, -30), F32FromInt(3)>>,
     <<F32FromInt(5), Flt(13421773, -27), F32FromInt(100),
       F32FromInt(-1), Flt(10066330, -25), Flt(-8388608, -25)>> >>

CodecSamples == {CodecSeq[i] : i \in 1..Len(CodecSeq)}

\* domain samples (min, max), four components each as in the file: wide;
\* narrow; inexact bounds; a single point; min above max
DomainSeq ==
    <<[min |-> <<F32Zero, F32Zero, F32Zero, F32Zero>>,
      max |-> <<F32FromInt(2047), F32FromInt(2047), F32FromInt(1023), F32Zero>>],
     [min |-> <<F32FromInt(-1), F32FromInt(-1), F32FromInt(-1), F32Zero>>,
      max |-> <<F32FromInt(1), F32FromInt(1), F32FromInt(1), F32Zero>>],
     [min |-> <<Flt(-15335875, -21), Flt(13421773, -27), F32FromInt(-100), F32Zero>>,
      max |-> <<Flt(9744394, -23), Flt(10066330, -25), F32FromInt(100), F32Zero>>],
     [min |-> <<F32FromInt(3), F32FromInt(3), F32FromInt(3), F32Zero>>,
      max |-> <<F32FromInt(3), F32FromInt(3), F32FromInt(3), F32Zero>>],
     [min |-> <<F32FromInt(2), F32FromInt(2), F32FromInt(2), F32Zero>>,
      max |-> <<F32FromInt(1), F32FromInt(1), F32FromInt(1), F32Zero>>]>>

DomainSamples == {DomainSeq[i] : i \in 1..Len(DomainSeq)}

AllOnes32 == <<65535, 65535>>

AllOnes64 == <<65535, 65535, 65535, 65535>>

PackedArrays == {<<>>} \cup {<<p>> : p \in PackedWords} \cup {<<p, AllOnes32>> : p \in PackedWords}

SharedArrays == {<<>>} \cup {<<w>> : w \in SharedWords} \cup {<<AllOnes64, w>> : w \in SharedWords}

CodecInputs ==
    {[kind |-> "packed", packed |-> a,
      codec |-> [min_xyz |-> Slice(c, 0, 3), scale_xyz |-> Slice(c, 3, 6)],
      domain_min |-> Prefix(d.min, 3), domain_max |-> Prefix(d.max, 3)] :
        a \in PackedArrays, c \in CodecSamples, d \in DomainSamples}
    \cup
    {[kind |-> "shared", shared |-> a,
      domain_min |-> Prefix(d.min, 3), domain_max |-> Prefix(d.max, 3)] :
        a \in SharedArrays, d \in DomainSamples}

\* Quads by the pattern of equal corners: every way four corners can coincide
QuadPatterns ==
    {q \in [1..4 -> 0..3] :
        /\ q[1] = 0
        /\ \A i \in 2..4 : \E j \in 1..(i - 1) : q[i] <= q[j] + 1}

\* Resolved primitives: row i holds a pattern over the indices i-1 .. i+2
TrisInputs ==
    {[i \in 1..Len(ps) |-> [c \in 1..4 |-> ps[i][c] + (i - 1)]] :
        ps \in SeqsOf(QuadPatterns, 1, MaxQuads)}

\* The k-th sample of a list, wrapping around
Nth(seq, k) == seq[((k - 1) % Len(seq)) + 1]

\* The tree of section k: its own domain and codec, the given ranges
SectionTag(k, ranges) ==
    [domain |-> Nth(DomainSeq, k),
     codecParms |-> Nth(CodecSeq, k),
     firstPackedVertexIndex |-> ranges.firstPackedVertexIndex,
     firstSharedVertexIndex |-> ranges.firstSharedVertexIndex,
     firstPrimitiveIndex |-> ranges.firstPrimitiveIndex,
     numPackedVertices |-> ranges.numPackedVertices,
     numPrimitives |-> ranges.numPrimitives,
     firstDataRunIndex |-> 0,
     numDataRuns |-> 0]

\* Cut points 0 = c[0] <= c[1] <= ... <= c[n] = total of n consecutive ranges
\* (no ranges at all for n = 0)
Cuts(total, n) ==
    {c \in [0..n -> 0..total] :
        /\ c[0] = 0
        /\ n > 0 => c[n] = total
        /\ \A k \in 1..n : c[k - 1] <= c[k]}

\* The ranges of n sections that partition P packed vertices and N primitives
Layout(pc, qc, n, stride) ==
    [k \in 1..n |->
        [firstPackedVertexIndex |-> pc[k - 1],
         numPackedVertices |-> pc[k] - pc[k - 1],
         firstPrimitiveIndex |-> qc[k - 1],
         numPrimitives |-> qc[k] - qc[k - 1],
         firstSharedVertexIndex |-> (k - 1) * stride]]

RangeFields ==
    {"firstPackedVertexIndex", "numPackedVertices", "firstPrimitiveIndex", "numPrimitives"}

\* A partition as written, or with one field of one section off by one: a
\* count one more or one less, a start one later
Perturbations(n) ==
    {[k |-> 0, field |-> "none", by |-> 0]}
    \cup {[k |-> k, field |-> f, by |-> 1] : k \in 1..n, f \in RangeFields}
    \cup {[k |-> k, field |-> f, by |-> -1] :
            k \in 1..n, f \in {"numPackedVertices", "numPrimitives"}}

Perturbed(layout, pert) ==
    [k \in 1..Len(layout) |->
        IF k = pert.k
        THEN [layout[k] EXCEPT ![pert.field] = layout[k][pert.field] + pert.by]
        ELSE layout[k]]

Reversed(seq) == [i \in 1..Len(seq) |-> seq[Len(seq) + 1 - i]]

\* What varies besides the ranges: the indirection table, the largest raw
\* index of the primitives, the step of firstSharedVertexIndex, and whether
\* the sections are listed in the order of their ranges.  The shared pool has
\* two vertices, so table entry 2 is out of range.
Variants ==
    {[table |-> <<1, 0, 1, 0, 1, 0, 1, 0>>, hiRaw |-> MaxPacked + 1, stride |-> 1, reversed |-> FALSE],
     [table |-> <<1, 0, 1, 0, 1, 0, 1, 0>>, hiRaw |-> MaxPacked + 1, stride |-> 1, reversed |-> TRUE],
     [table |-> <<0, 1, 2, 1>>, hiRaw |-> MaxPacked + 1, stride |-> 0, reversed |-> FALSE],
     [table |-> <<1>>, hiRaw |-> 1, stride |-> 1, reversed |-> TRUE]}

PackedSample(i) == <<(613 * i) % 65536, (8257 * i) % 65536>>

SharedPool == <<AllOnes64, <<1, 32, 1024, 32768>> >>

MeshTreeOf(P, N, variant, ranges) ==
    [domain |-> DomainSeq[3],
     primitives |-> [r \in 1..N |-> [c \in 1..4 |-> (r + c) % (variant.hiRaw + 1)]],
     sharedVerticesIndex |-> variant.table,
     sections |-> [k \in 1..Len(ranges) |-> SectionTag(k, ranges[k])],
     sharedVertices |-> SharedPool,
     packedVertices |-> [i \in 1..P |-> PackedSample(i)]]

NonNegative(ranges) ==
    \A k \in 1..Len(ranges) : \A f \in RangeFields : ranges[k][f] >= 0

\* The mesh trees a run starts from: P packed vertices, N primitives, n
\* sections whose ranges partition both arrays or miss doing so by one
IsMeshTreeInput(mt) ==
    \/ \E P \in {0, MaxPacked}, v \in Variants, n \in 0..MaxSections :
         \E pc \in Cuts(P, n), qc \in Cuts(MaxPrims, n), pert \in Perturbations(n) :
            LET ranges == Perturbed(Layout(pc, qc, n, v.stride), pert)
            IN  /\ NonNegative(ranges)
                /\ mt = MeshTreeOf(P, MaxPrims, v,
                                   IF v.reversed THEN Reversed(ranges) ELSE ranges)
    \/ \E v \in Variants :
         mt = MeshTreeOf(MaxPacked, 0, v,
                         Layout([k \in 0..1 |-> k * MaxPacked], [k \in 0..1 |-> 0], 1, 0))

\* What np.empty may find in memory
JunkVerts ==
    {<<F32Zero, F32Zero, F32Zero>>, <<F32FromInt(7), F32FromInt(7), F32FromInt(7)>>}

\* Meshes of the bodies in the extractor's trees: one that builds, and one
\* whose indirection table is too short, so that the lookup raises
TwoSections ==
    Layout([k \in 0..2 |-> k], [k \in 0..2 |-> k], 2, 1)

GoodMesh ==
    MeshTreeOf(2, 2, [table |-> <<1, 0, 1, 0, 1, 0, 1, 0>>, hiRaw |-> 3], TwoSections)

BadMesh ==
    MeshTreeOf(2, 2, [table |-> <<1>>, hiRaw |-> 3], TwoSections)

BodyNames == <<"s_hull", "s_turret", "s_gun", "s_chassis">>

\* The bodies of one entry: names by position; without shape data, with a
\* mesh that builds, or with one that does not
BodyKinds == {"none", "good", "bad"}

BodiesOf(kinds) ==
    [i \in 1..Len(kinds) |->
        [name |-> Nth(BodyNames, i),
         hasData |-> kinds[i] # "none",
         meshTree |-> IF kinds[i] = "bad" THEN BadMesh ELSE GoodMesh]]

Entries ==
    {[name |-> CollisionName, hasBodyCinfos |-> TRUE, bodyCinfos |-> BodiesOf(kinds)] :
        kinds \in SeqsOf(BodyKinds, 0, MaxBodies)}
    \cup {[name |-> CollisionName, hasBodyCinfos |-> FALSE, bodyCinfos |-> <<>>],
          [name |-> "Visual Data", hasBodyCinfos |-> FALSE, bodyCinfos |-> <<>>],
          [name |-> "Visual Data", hasBodyCinfos |-> TRUE, bodyCinfos |-> BodiesOf(<<"good">>)]}

TagTrees ==
    {[fileType |-> "Object", numNamedVariants |-> 1, resourceHandles |-> h] :
        h \in SeqsOf(Entries, 0, 2)}
    \cup {[fileType |-> ft, numNamedVariants |-> nv,
           resourceHandles |-> <<[name |-> CollisionName, hasBodyCinfos |-> TRUE,
                                  bodyCinfos |-> BodiesOf(<<"good">>)]>>] :
            ft \in {"Object", "Compendium"}, nv \in 0..2}

(***************************************************************************)
(* The state of a component that a specification leaves out.               *)
(***************************************************************************)
CodecIdle == cIn = <<>> /\ cOut = <<>> /\ cpc = "idle"

TrisIdle == tIn = <<>> /\ tOut = <<>> /\ tpc = "idle"

GeomIdle == meshTree = <<>> /\ g = <<>> /\ gw = <<>> /\ gpc = "idle"

ExtractIdle == tree = <<>> /\ xpc = "idle" /\ vi = 0 /\ bi = 0 /\ out = <<>>

(***************************************************************************)
(* Vertex codec: one call of either decode.                                *)
(***************************************************************************)
CodecInit ==
    /\ cIn \in CodecInputs
    /\ cOut = <<>>
    /\ cpc = cIn.kind
    /\ TrisIdle /\ GeomIdle /\ ExtractIdle

UnpackPacked ==
    /\ cpc = "packed"
    /\ cOut' = unpack_packed_vertices(cIn.packed, cIn.codec, cIn.domain_min, cIn.domain_max)
    /\ cpc' = "done"
    /\ UNCHANGED <<cIn, trisVars, geomVars, extractVars>>

UnpackShared ==
    /\ cpc = "shared"
    /\ cOut' = unpack_shared_vertices(cIn.shared, cIn.domain_min, cIn.domain_max)
    /\ cpc' = "done"
    /\ UNCHANGED <<cIn, trisVars, geomVars, extractVars>>

CodecNext == UnpackPacked \/ UnpackShared

SpecCodec == CodecInit /\ [][CodecNext]_vars

(***************************************************************************)
(* Triangulator: one read of the tris property.                            *)
(***************************************************************************)
TrisInit ==
    /\ tIn \in TrisInputs
    /\ tOut = <<>>
    /\ tpc = "ready"
    /\ CodecIdle /\ GeomIdle /\ ExtractIdle

ReadTris ==
    /\ tpc = "ready"
    /\ tOut' = tris(tIn)
    /\ tpc' = "done"
    /\ UNCHANGED <<tIn, codecVars, geomVars, extractVars>>

TrisNext == ReadTris

SpecTris == TrisInit /\ [][TrisNext]_vars

(***************************************************************************)
(* Geometry builder: HavokGeometry.__init__ step by step.                  *)
(***************************************************************************)
Init ==
    /\ IsMeshTreeInput(meshTree)
    /\ g = <<>>
    /\ gw = <<>>
    /\ gpc = "new"
    /\ CodecIdle /\ TrisIdle /\ ExtractIdle

\* Lines 106-125, np.stack raising on a mesh without primitives
ReadMeshTreeRaises ==
    /\ gpc = "new"
    /\ StackRaises(meshTree)
    /\ gpc' = "raised"
    /\ UNCHANGED <<meshTree, g, gw, codecVars, trisVars, extractVars>>

\* Lines 106-125
ReadMeshTree ==
    /\ gpc = "new"
    /\ ~StackRaises(meshTree)
    /\ g' = ReadFields("body", meshTree)
    /\ gw' = [verts |-> <<>>, primitives |-> [r \in 1..Len(meshTree.primitives) |-> 0]]
    /\ gpc' = "alloc"
    /\ UNCHANGED <<meshTree, codecVars, trisVars, extractVars>>

\* Lines 127-131
AllocVerts ==
    /\ gpc = "alloc"
    /\ \E junk \in JunkVerts :
        g' = [g EXCEPT !.verts = AllocatedVerts(g, junk)]
    /\ gw' = [gw EXCEPT !.verts =
                [i \in 1..(Len(g.packedVertices) + Len(g.sharedVertices)) |->
                    IF i > Len(g.packedVertices) THEN 1 ELSE 0]]
    /\ gpc' = "sections"
    /\ UNCHANGED <<meshTree, codecVars, trisVars, extractVars>>

\* Lines 132-147, one pass of the loop
SectionStep ==
    /\ gpc = "sections"
    /\ g.si <= Len(g.sections)
    /\ LET sec == g.sections[g.si]
           step == ProcessSection(g, sec)
       IN  /\ ~step.raised
           /\ g' = step.obj
           /\ gw' = [verts |-> [i \in 1..Len(g.verts) |->
                                   gw.verts[i] + (IF i \in PackedTarget(g, sec) THEN 1 ELSE 0)],
                     primitives |-> [r \in 1..Len(g.primitives) |->
                                   gw.primitives[r] + (IF r \in PrimRows(g, sec) THEN 1 ELSE 0)]]
    /\ UNCHANGED <<meshTree, gpc, codecVars, trisVars, extractVars>>

\* Lines 132-147, a pass that ends in ValueError or IndexError.  A ValueError
\* of line 135 stores nothing; an IndexError of line 146 comes after line 135
\* has stored the section's packed rows, and before any primitive is written
SectionRaises ==
    /\ gpc = "sections"
    /\ g.si <= Len(g.sections)
    /\ LET sec == g.sections[g.si]
           step == ProcessSection(g, sec)
       IN  /\ step.raised
           /\ g' = step.obj
           /\ gw' = [gw EXCEPT !.verts =
                        [i \in 1..Len(g.verts) |->
                            gw.verts[i] + (IF ~PackedRaises(g, sec) /\ i \in PackedTarget(g, sec)
                                           THEN 1 ELSE 0)]]
    /\ gpc' = "raised"
    /\ UNCHANGED <<meshTree, codecVars, trisVars, extractVars>>

\* The loop is exhausted: the constructor returns
Constructed ==
    /\ gpc = "sections"
    /\ g.si > Len(g.sections)
    /\ gpc' = "done"
    /\ UNCHANGED <<meshTree, g, gw, codecVars, trisVars, extractVars>>

Next ==
    \/ ReadMeshTreeRaises
    \/ ReadMeshTree
    \/ AllocVerts
    \/ SectionStep
    \/ SectionRaises
    \/ Constructed

Spec == Init /\ [][Next]_vars

(***************************************************************************)
(* Extractor: read_geoms_from_havok.                                       *)
(***************************************************************************)
ExtractInit ==
    /\ tree \in TagTrees
    /\ xpc = "open"
    /\ vi = 0
    /\ bi = 0
    /\ out = <<>>
    /\ CodecIdle /\ TrisIdle /\ GeomIdle

\* Lines 161-164, an assertion failing
OpenRaises ==
    /\ xpc = "open"
    /\ AssertionFails(tree)
    /\ xpc' = "raised"
    /\ UNCHANGED <<tree, vi, bi, out, codecVars, trisVars, geomVars>>

\* Lines 161-167
Open ==
    /\ xpc = "open"
    /\ ~AssertionFails(tree)
    /\ xpc' = "entries"
    /\ vi' = 1
    /\ out' = <<>>
    /\ UNCHANGED <<tree, bi, codecVars, trisVars, geomVars>>

\* Lines 169-170
SkipEntry ==
    /\ xpc = "entries"
    /\ vi <= Len(tree.resourceHandles)
    /\ ~NameMatches(tree.resourceHandles[vi])
    /\ vi' = vi + 1
    /\ UNCHANGED <<tree, xpc, bi, out, codecVars, trisVars, geomVars>>

\* Lines 171-172, no bodyCinfos
EntryWithoutBodies ==
    /\ xpc = "entries"
    /\ vi <= Len(tree.resourceHandles)
    /\ NameMatches(tree.resourceHandles[vi])
    /\ ~HasBodies(tree.resourceHandles[vi])
    /\ vi' = vi + 1
    /\ UNCHANGED <<tree, xpc, bi, out, codecVars, trisVars, geomVars>>

\* Lines 171-173
EnterEntry ==
    /\ xpc = "entries"
    /\ vi <= Len(tree.resourceHandles)
    /\ NameMatches(tree.resourceHandles[vi])
    /\ HasBodies(tree.resourceHandles[vi])
    /\ xpc' = "bodies"
    /\ bi' = 1
    /\ UNCHANGED <<tree, vi, out, codecVars, trisVars, geomVars>>

\* Line 174, no shape data
SkipBody ==
    /\ xpc = "bodies"
    /\ bi <= Len(tree.resourceHandles[vi].bodyCinfos)
    /\ ~HasShapeData(tree.resourceHandles[vi].bodyCinfos[bi])
    /\ bi' = bi + 1
    /\ UNCHANGED <<tree, xpc, vi, out, codecVars, trisVars, geomVars>>

\* Lines 174-181
BuildBody ==
    /\ xpc = "bodies"
    /\ bi <= Len(tree.resourceHandles[vi].bodyCinfos)
    /\ LET body == tree.resourceHandles[vi].bodyCinfos[bi]
       IN  /\ HasShapeData(body)
           /\ \E junk \in JunkVerts :
                LET built == HavokGeometry(body.name, body.meshTree, junk)
                IN  /\ ~built.raised
                    /\ out' = Append(out, built.obj)
    /\ bi' = bi + 1
    /\ UNCHANGED <<tree, xpc, vi, codecVars, trisVars, geomVars>>

\* Lines 174-181, the constructor raising: nothing catches the exception
BuildRaises ==
    /\ xpc = "bodies"
    /\ bi <= Len(tree.resourceHandles[vi].bodyCinfos)
    /\ LET body == tree.resourceHandles[vi].bodyCinfos[bi]
       IN  /\ HasShapeData(body)
           /\ \E junk \in JunkVerts : HavokGeometry(body.name, body.meshTree, junk).raised
    /\ xpc' = "raised"
    /\ UNCHANGED <<tree, vi, bi, out, codecVars, trisVars, geomVars>>

\* The inner loop is exhausted
LeaveEntry ==
    /\ xpc = "bodies"
    /\ bi > Len(tree.resourceHandles[vi].bodyCinfos)
    /\ xpc' = "entries"
    /\ vi' = vi + 1
    /\ UNCHANGED <<tree, bi, out, codecVars, trisVars, geomVars>>

\* Line 183
Return ==
    /\ xpc = "entries"
    /\ vi > Len(tree.resourceHandles)
    /\ xpc' = "returned"
    /\ UNCHANGED <<tree, vi, bi, out, codecVars, trisVars, geomVars>>

ExtractNext ==
    \/ OpenRaises
    \/ Open
    \/ SkipEntry
    \/ EntryWithoutBodies
    \/ EnterEntry
    \/ SkipBody
    \/ BuildBody
    \/ BuildRaises
    \/ LeaveEntry
    \/ Return

SpecExtract == ExtractInit /\ [][ExtractNext]_vars

(***************************************************************************)
(* Vocabulary of the properties.                                           *)
(***************************************************************************)
\* The rows, counted from 1, of the range [first, first + num)
RangeSet(first, num) == (first + 1)..(first + num)

PrimRange(sec) == RangeSet(sec.firstPrimitiveIndex, sec.numPrimitives)

PackedRange(sec) == RangeSet(sec.firstPackedVertexIndex, sec.numPackedVertices)

PrimRangesDisjoint(secs) ==
    \A j, k \in 1..Len(secs) : j # k => PrimRange(secs[j]) \cap PrimRange(secs[k]) = {}

PackedRangesDisjoint(secs) ==
    \A j, k \in 1..Len(secs) : j # k => PackedRange(secs[j]) \cap PackedRange(secs[k]) = {}

\* The primitive ranges are pairwise disjoint and cover [0, N)
PrimPartition(secs, N) ==
    /\ PrimRangesDisjoint(secs)
    /\ UNION {PrimRange(secs[k]) : k \in 1..Len(secs)} = 1..N

\* The packed ranges are pairwise disjoint and cover [0, P)
PackedPartition(secs, P) ==
    /\ PackedRangesDisjoint(secs)
    /\ UNION {PackedRange(secs[k]) : k \in 1..Len(secs)} = 1..P

PrimOwner(secs, r) == CHOOSE k \in 1..Len(secs) : r \in PrimRange(secs[k])

PackedOwner(secs, i) == CHOOSE k \in 1..Len(secs) : i \in PackedRange(secs[k])

VecLe(a, b) == \A c \in 1..3 : F32Le(a[c], b[c])

(***************************************************************************)
(* C1.  Index resolution: when the primitive ranges of the sections are    *)
(* pairwise disjoint and cover [0, len(primitives)), a constructed         *)
(* geometry holds in every corner of every row r, owned by section s, one  *)
(* rewrite of the raw value v: firstPackedVertexIndex(s) + v if            *)
(* v < numPackedVertices(s), else len(packedVertices) +                    *)
(* sharedVerticesIndex[firstSharedVertexIndex(s) + v - numPackedVertices]. *)
(***************************************************************************)
C1_Resolved(s, v) ==
    IF v < s.numPackedVertices
    THEN s.firstPackedVertexIndex + v
    ELSE Len(g.packedVertices)
         + g.sharedVerticesIndex[s.firstSharedVertexIndex + (v - s.numPackedVertices) + 1]

C1_IndexResolution ==
    (gpc = "done" /\ PrimPartition(g.sections, Len(meshTree.primitives))) =>
        \A r \in 1..Len(meshTree.primitives) :
            /\ gw.primitives[r] = 1
            /\ \A c \in 1..4 :
                g.primitives[r][c] =
                    C1_Resolved(g.sections[PrimOwner(g.sections, r)], meshTree.primitives[r][c])

\* A two-section geometry was built in which a section without packed vertices
\* owns a row, and some corner took each branch
C1_Witness ==
    /\ gpc = "done"
    /\ PrimPartition(g.sections, Len(meshTree.primitives))
    /\ Len(g.sections) = 2
    /\ \E r \in 1..Len(meshTree.primitives) :
        g.sections[PrimOwner(g.sections, r)].numPackedVertices = 0
    /\ \E r \in 1..Len(meshTree.primitives) : \E c, d \in 1..4 :
        LET s == g.sections[PrimOwner(g.sections, r)]
        IN  /\ s.firstPackedVertexIndex > 0
            /\ s.firstSharedVertexIndex > 0
            /\ meshTree.primitives[r][c] < s.numPackedVertices
            /\ meshTree.primitives[r][d] > s.numPackedVertices

(***************************************************************************)
(* C2.  Every geometry that is returned has all its primitive and tris     *)
(* indices inside [0, len(packedVertices) + len(sharedVertices)): a        *)
(* geometry with an index outside is rejected with CorruptGeometry.        *)
(***************************************************************************)
InRange(obj, v) == 0 <= v /\ v < Len(obj.packedVertices) + Len(obj.sharedVertices)

C2_ReturnedInRange ==
    gpc = "done" =>
        /\ \A r \in 1..Len(g.primitives) : \A c \in 1..4 : InRange(g, g.primitives[r][c])
        /\ \A t \in 1..Len(tris(g.primitives)) : \A c \in 1..3 :
            InRange(g, tris(g.primitives)[t][c])

(***************************************************************************)
(* C6.  Disjointness is enforced: no primitive row is ever rewritten by    *)
(* two sections, and a geometry is returned only if the packed ranges and  *)
(* the primitive ranges of its sections each are pairwise disjoint and     *)
(* cover their array exactly (no overlap, no gap, no run past the end).    *)
(***************************************************************************)
C6_DisjointnessEnforced ==
    /\ gpc \in {"sections", "done"} =>
        \A r \in 1..Len(g.primitives) : gw.primitives[r] <= 1
    /\ gpc = "done" =>
        /\ PackedPartition(g.sections, Len(g.packedVertices))
        /\ PrimPartition(g.sections, Len(g.primitives))
        /\ \A r \in 1..Len(g.primitives) : gw.primitives[r] = 1

(***************************************************************************)
(* C9.  Layout of verts after construction: len(verts) =                   *)
(* len(packedVertices) + len(sharedVertices); row len(packedVertices) + j  *)
(* is the decode of sharedVertices[j] with the geometry's domain, assigned *)
(* by the shared decode only; and every row i < len(packedVertices) lies   *)
(* in the packed range of exactly one section and was assigned exactly     *)
(* once, the decode of packedVertices[i] with that section's codec and     *)
(* domain, so that no row is left as allocated.                            *)
(***************************************************************************)
C9_SharedTail ==
    LET P == Len(g.packedVertices)
    IN  /\ Len(g.verts) = P + Len(g.sharedVertices)
        /\ \A j \in 1..Len(g.sharedVertices) :
            /\ g.verts[P + j] =
                 unpack_shared_vertices(<<meshTree.sharedVertices[j]>>,
                                        Prefix(meshTree.domain.min, 3),
                                        Prefix(meshTree.domain.max, 3))[1]
            /\ gw.verts[P + j] = 1

\* Row i was assigned once, the decode of packedVertices[i] by section k
C9_PackedRow(i, k) ==
    LET tag == meshTree.sections[k]
    IN  /\ g.verts[i] =
             unpack_packed_vertices(
                 <<meshTree.packedVertices[i]>>,
                 [min_xyz |-> <<tag.codecParms[1], tag.codecParms[2], tag.codecParms[3]>>,
                  scale_xyz |-> <<tag.codecParms[4], tag.codecParms[5], tag.codecParms[6]>>],
                 Prefix(tag.domain.min, 3), Prefix(tag.domain.max, 3))[1]
        /\ gw.verts[i] = 1

C9_EveryRowAssigned ==
    gpc = "done" =>
        /\ C9_SharedTail
        /\ \A i \in 1..Len(g.packedVertices) :
            \E k \in 1..Len(g.sections) :
                /\ i \in PackedRange(g.sections[k])
                /\ \A j \in 1..Len(g.sections) : i \in PackedRange(g.sections[j]) => j = k
                /\ C9_PackedRow(i, k)

\* The layout of C9 on the geometries whose packed ranges are pairwise
\* disjoint and cover [0, len(packedVertices))
C9_VertsLayout ==
    (gpc = "done" /\ PackedPartition(g.sections, Len(g.packedVertices))) =>
        /\ C9_SharedTail
        /\ \A i \in 1..Len(g.packedVertices) :
            C9_PackedRow(i, PackedOwner(g.sections, i))

(***************************************************************************)
(* C10.  Frame of one pass of the loop over the sections: the pass for     *)
(* section s changes no primitive row outside [firstPrimitiveIndex(s),     *)
(* firstPrimitiveIndex(s) + numPrimitives(s)), no verts row outside        *)
(* [firstPackedVertexIndex(s), firstPackedVertexIndex(s) +                 *)
(* numPackedVertices(s)), and none of sharedVerticesIndex, sharedVertices, *)
(* packedVertices; and with disjoint primitive ranges the primitives of    *)
(* the constructed geometry are those every other order of the sections    *)
(* yields.                                                                 *)
(***************************************************************************)
C10_FrameOfPass ==
    (gpc = "sections" /\ g.si <= Len(g.sections)) =>
        LET s == g.sections[g.si]
        IN  /\ Len(g'.primitives) = Len(g.primitives)
            /\ Len(g'.verts) = Len(g.verts)
            /\ \A r \in 1..Len(g.primitives) :
                r \notin PrimRange(s) => g'.primitives[r] = g.primitives[r]
            /\ \A i \in 1..Len(g.verts) :
                i \notin PackedRange(s) => g'.verts[i] = g.verts[i]
            /\ g'.sharedVerticesIndex = g.sharedVerticesIndex
            /\ g'.sharedVertices = g.sharedVertices
            /\ g'.packedVertices = g.packedVertices

Orders(n) == {f \in [1..n -> 1..n] : \A j, k \in 1..n : j # k => f[j] # f[k]}

\* The constructor run on the same mesh with its sections in the order f
Reordered(f) ==
    LET fields == ReadFields("body", meshTree)
        start == [fields EXCEPT !.verts = g.verts,
                                !.sections = [k \in 1..Len(fields.sections) |-> fields.sections[f[k]]]]
    IN  ProcessSections(start)

C10_OrderIndependent ==
    (gpc = "done" /\ PrimRangesDisjoint(g.sections)) =>
        \A f \in Orders(Len(g.sections)) :
            /\ ~Reordered(f).raised
            /\ Reordered(f).obj.primitives = g.primitives

C10_Frame == [][C10_FrameOfPass]_vars /\ []C10_OrderIndependent

\* The pass for the first of two sections has rewritten its rows and left a
\* row of the other section as it was read
C10_Witness ==
    /\ gpc = "sections"
    /\ Len(g.sections) = 2
    /\ g.si = 2
    /\ PrimRangesDisjoint(g.sections)
    /\ \E r \in PrimRange(g.sections[1]) :
        r <= Len(g.primitives) /\ g.primitives[r] # meshTree.primitives[r]
    /\ \E r \in PrimRange(g.sections[2]) : r <= Len(g.primitives)
    /\ g.sections[1].numPackedVertices > 0

(***************************************************************************)
(* C3.  Failures are isolated per geometry: on a file that passes the two  *)
(* assertions the extraction returns, and returns the geometries of all    *)
(* the bodies whose construction succeeds, whether or not the construction *)
(* of another body failed before or after them.                            *)
(***************************************************************************)
\* The bodies the walk is to build, in traversal order
BodiesOfEntry(val) ==
    IF val.name = CollisionName /\ val.hasBodyCinfos
    THEN SelectSeq(val.bodyCinfos, LAMBDA b : b.hasData)
    ELSE <<>>

RECURSIVE BodiesFrom(_, _)
BodiesFrom(handles, i) ==
    IF i > Len(handles) THEN <<>>
    ELSE BodiesOfEntry(handles[i]) \o BodiesFrom(handles, i + 1)

ExpectedBodies == BodiesFrom(tree.resourceHandles, 1)

Builds(mt) == \E junk \in JunkVerts : ~HavokGeometry("body", mt, junk).raised

NamesOf(seq) == [i \in 1..Len(seq) |-> seq[i].name]

C3_FailuresIsolated ==
    (xpc \in {"returned", "raised"} /\ ~AssertionFails(tree)) =>
        /\ xpc = "returned"
        /\ NamesOf(out) = NamesOf(SelectSeq(ExpectedBodies, LAMBDA b : Builds(b.meshTree)))

(***************************************************************************)
(* C5.  Extraction filtering: the list returned holds exactly one geometry *)
(* per body that lies in the bodyCinfos of a resourceHandles entry named   *)
(* "Collision Physics Data" and has shape.data, in traversal order, named  *)
(* from the body and built from its meshTree; every other entry and body   *)
(* contributes nothing; and on a well-formed tree nothing is raised.       *)
(***************************************************************************)
\* A mesh as the data model describes it: at least one primitive, section
\* ranges that partition both arrays, every shared reference inside the table
WellFormedMesh(mt) ==
    /\ Len(mt.primitives) >= 1
    /\ PrimPartition(mt.sections, Len(mt.primitives))
    /\ PackedPartition(mt.sections, Len(mt.packedVertices))
    /\ \A r \in 1..Len(mt.primitives) : \A c \in 1..4 :
        LET sec == mt.sections[PrimOwner(mt.sections, r)]
            v == mt.primitives[r][c]
        IN  v >= sec.numPackedVertices =>
                sec.firstSharedVertexIndex + (v - sec.numPackedVertices)
                    < Len(mt.sharedVerticesIndex)

C5_ExtractionFiltering ==
    /\ xpc = "returned" =>
        /\ Len(out) = Len(ExpectedBodies)
        /\ \A i \in 1..Len(out) :
            /\ out[i].name = ExpectedBodies[i].name
            /\ \E junk \in JunkVerts :
                out[i] = HavokGeometry(ExpectedBodies[i].name, ExpectedBodies[i].meshTree, junk).obj
    /\ xpc = "raised" =>
        \/ AssertionFails(tree)
        \/ \E i \in 1..Len(ExpectedBodies) : ~WellFormedMesh(ExpectedBodies[i].meshTree)

\* Two entries, one of them named "Collision Physics Data" with a body with
\* shape data and a body without, the other with a body that has shape data:
\* one geometry is returned
C5_Witness ==
    /\ xpc = "returned"
    /\ Len(tree.resourceHandles) = 2
    /\ \E j, k \in 1..2 :
        /\ tree.resourceHandles[j].name = CollisionName
        /\ tree.resourceHandles[k].name # CollisionName
        /\ Len(tree.resourceHandles[k].bodyCinfos) = 1
        /\ Len(tree.resourceHandles[j].bodyCinfos) = 2
        /\ ~tree.resourceHandles[j].bodyCinfos[1].hasData
        /\ tree.resourceHandles[j].bodyCinfos[2].hasData
    /\ Len(out) = 1
    /\ out[1].name = "s_turret"

(***************************************************************************)
(* C4.  Triangulation: tris is the sequence obtained by taking, quad by    *)
(* quad in order, candidate (a,b,c) and then candidate (a,c,d) of the quad *)
(* (a,b,c,d), and leaving out exactly the candidates in which two of the   *)
(* three indices are equal.                                                *)
(***************************************************************************)
C4_Kept(t) == IF Cardinality({t[1], t[2], t[3]}) = 3 THEN <<t>> ELSE <<>>

RECURSIVE C4_Expected(_, _)
C4_Expected(quads, i) ==
    IF i > Len(quads) THEN <<>>
    ELSE LET q == quads[i]
         IN  C4_Kept(<<q[1], q[2], q[3]>>) \o C4_Kept(<<q[1], q[3], q[4]>>)
                \o C4_Expected(quads, i + 1)

C4_Triangulation == tpc = "done" => tOut = C4_Expected(tIn, 1)

\* Two quads were triangulated: of the first only the second candidate
\* survives, of the second both do
C4_Witness ==
    /\ tpc = "done"
    /\ Len(tIn) = 2
    /\ tIn[1][1] = tIn[1][2]
    /\ Cardinality({tIn[1][1], tIn[1][3], tIn[1][4]}) = 3
    /\ Cardinality({tIn[2][c] : c \in 1..4}) = 4
    /\ Len(tOut) = 3

(***************************************************************************)
(* C7.  Packed decode: the fields of a packed value p are x = p mod 2^11,  *)
(* y = (p div 2^11) mod 2^11 and z = (p div 2^22) mod 2^10, and for a      *)
(* section domain with min <= max each output coordinate is                *)
(* raw * scale + min (in float32) clamped into [min, max], so it never     *)
(* lies outside the domain.  With p = hi * 2^16 + lo,                      *)
(* p div 2^11 = hi * 2^5 + lo div 2^11 and p div 2^22 = hi div 2^6.        *)
(***************************************************************************)
C7_Raw(p, c) ==
    CASE c = 1 -> p[1] % Pow2(11)
      [] c = 2 -> (p[2] * Pow2(5) + p[1] \div Pow2(11)) % Pow2(11)
      [] c = 3 -> (p[2] \div Pow2(6)) % Pow2(10)

C7_PackedDecode ==
    (cpc = "done" /\ cIn.kind = "packed") =>
        /\ Len(cOut) = Len(cIn.packed)
        /\ \A i \in 1..Len(cIn.packed) : \A c \in 1..3 :
            LET raw == C7_Raw(cIn.packed[i], c)
                v == F32Add(F32Mul(F32FromInt(raw), cIn.codec.scale_xyz[c]), cIn.codec.min_xyz[c])
                lo == cIn.domain_min[c]
                hi == cIn.domain_max[c]
            IN  /\ PackedField(cIn.packed[i], c) = raw
                /\ raw \in 0..(IF c = 3 THEN 1023 ELSE 2047)
                /\ F32Le(lo, hi) =>
                    /\ cOut[i][c] = (IF F32Lt(v, lo) THEN lo ELSE IF F32Lt(hi, v) THEN hi ELSE v)
                    /\ F32Le(lo, cOut[i][c])
                    /\ F32Le(cOut[i][c], hi)

\* A value was decoded whose raw * scale + min exceeds the domain's maximum
\* in one coordinate and falls below its minimum in another
C7_Witness ==
    /\ cpc = "done"
    /\ cIn.kind = "packed"
    /\ \E i \in 1..Len(cIn.packed) : \E c, d \in 1..3 :
        LET v(k) == F32Add(F32Mul(F32FromInt(C7_Raw(cIn.packed[i], k)), cIn.codec.scale_xyz[k]),
                           cIn.codec.min_xyz[k])
        IN  /\ VecLe(cIn.domain_min, cIn.domain_max)
            /\ F32Lt(cIn.domain_max[c], v(c))
            /\ cOut[i][c] = cIn.domain_max[c]
            /\ F32Lt(v(d), cIn.domain_min[d])
            /\ cOut[i][d] = cIn.domain_min[d]

(***************************************************************************)
(* C8.  Shared decode.  As claimed: the numerators x = s mod 2^21,         *)
(* y = (s div 2^21) mod 2^21, z = (s div 2^42) mod 2^22 lie in             *)
(* [0, 0x1FFFFF], [0, 0x1FFFFF], [0, 0x3FFFFF], each fraction lies in      *)
(* [0, 1], and for a domain with min <= max each decoded coordinate lies   *)
(* in [min, max].  With s = l3 * 2^48 + l2 * 2^32 + l1 * 2^16 + l0 the     *)
(* numerators are (l1 mod 2^5) * 2^16 + l0, l1 div 2^5 + (l2 mod 2^10) *   *)
(* 2^11 and l2 div 2^10 + l3 * 2^6.                                        *)
(***************************************************************************)
C8_Num(s, c) ==
    CASE c = 1 -> (s[2] % Pow2(5)) * Pow2(16) + s[1]
      [] c = 2 -> s[2] \div Pow2(5) + (s[3] % Pow2(10)) * Pow2(11)
      [] c = 3 -> s[3] \div Pow2(10) + s[4] * Pow2(6)

C8_Den(c) == IF c = 3 THEN Pow2(22) - 1 ELSE Pow2(21) - 1

C8_Fields(s, c) ==
    /\ SharedField(s, c) = C8_Num(s, c)
    /\ 0 <= C8_Num(s, c)
    /\ C8_Num(s, c) <= C8_Den(c)
    /\ F32Le(F32Zero, SharedFraction(s, c))
    /\ F32Le(SharedFraction(s, c), F32FromInt(1))

C8_SharedWithinDomain ==
    (cpc = "done" /\ cIn.kind = "shared") =>
        \A i \in 1..Len(cIn.shared) : \A c \in 1..3 :
            /\ C8_Fields(cIn.shared[i], c)
            /\ F32Le(cIn.domain_min[c], cIn.domain_max[c]) =>
                /\ F32Le(cIn.domain_min[c], cOut[i][c])
                /\ F32Le(cOut[i][c], cIn.domain_max[c])

(***************************************************************************)
(* C8, amended.  The numerators and fractions are bounded as claimed; for  *)
(* a domain with min <= max each decoded coordinate is at least min and at *)
(* most the float32 value of (max - min) + min, which a full numerator     *)
(* attains and which rounding can carry above max.                         *)
(***************************************************************************)
C8_SharedDecode ==
    (cpc = "done" /\ cIn.kind = "shared") =>
        /\ Len(cOut) = Len(cIn.shared)
        /\ \A i \in 1..Len(cIn.shared) : \A c \in 1..3 :
            LET lo == cIn.domain_min[c]
                hi == cIn.domain_max[c]
                top == F32Add(F32Sub(hi, lo), lo)
            IN  /\ C8_Fields(cIn.shared[i], c)
                /\ F32Le(lo, hi) =>
                    /\ F32Le(lo, cOut[i][c])
                    /\ F32Le(cOut[i][c], top)
                    /\ C8_Num(cIn.shared[i], c) = C8_Den(c) => cOut[i][c] = top
                    /\ C8_Num(cIn.shared[i], c) = 0 => cOut[i][c] = lo

\* A value with a full numerator was decoded over a domain with min < max,
\* and the coordinate lies above the domain's maximum
C8_Witness ==
    /\ cpc = "done"
    /\ cIn.kind = "shared"
    /\ \E i \in 1..Len(cIn.shared) : \E c \in 1..3 :
        /\ F32Lt(cIn.domain_min[c], cIn.domain_max[c])
        /\ C8_Num(cIn.shared[i], c) = C8_Den(c)
        /\ F32Lt(cIn.domain_max[c], cOut[i][c])

=============================================================================
